---- MODULE Spec2Model ----
(***************************************************************************)
(* Model of the markdown table repair engine Claude37_round_5 of           *)
(* fix_markdown_tables_tournament.py.  A text is a sequence of one-        *)
(* character strings; a line is such a sequence without a line break; a    *)
(* row is a sequence of cells, each cell a sequence of characters.         *)
(***************************************************************************)
EXTENDS Integers, Sequences, FiniteSets, TLC

\* ------------------------------------------------------------------------
\* Bounds of the model
\* ------------------------------------------------------------------------
MaxLines == 3
MaxPasses == 2

\* ------------------------------------------------------------------------
\* Characters and str methods
\* ------------------------------------------------------------------------
Whitespace == {" ", "\t"}
LineBreaks == {"\n", "\r"}
LF == <<"\n">>
CRLF == <<"\r", "\n">>

RECURSIVE lstrip(_)
lstrip(s) ==
    IF s = <<>> THEN s
    ELSE IF Head(s) \in Whitespace THEN lstrip(Tail(s)) ELSE s

RECURSIVE rstrip(_)
rstrip(s) ==
    IF s = <<>> THEN s
    ELSE IF s[Len(s)] \in Whitespace THEN rstrip(SubSeq(s, 1, Len(s) - 1)) ELSE s

strip(s) == lstrip(rstrip(s))

\* '|' in line
HasPipe(line) == \E i \in DOMAIN line : line[i] = "|"

startswith(s, c) == s # <<>> /\ s[1] = c
endswith(s, c) == s # <<>> /\ s[Len(s)] = c

\* s.split(d) for a one-character delimiter d
RECURSIVE split(_, _)
split(s, d) ==
    IF \A i \in DOMAIN s : s[i] # d THEN <<s>>
    ELSE LET k == CHOOSE i \in DOMAIN s :
                      s[i] = d /\ \A j \in 1..(i - 1) : s[j] # d
         IN <<SubSeq(s, 1, k - 1)>> \o split(SubSeq(s, k + 1, Len(s)), d)

\* sep.join(parts)
RECURSIVE join(_, _)
join(sep, parts) ==
    IF parts = <<>> THEN <<>>
    ELSE IF Len(parts) = 1 THEN parts[1]
    ELSE parts[1] \o sep \o join(sep, Tail(parts))

\* text.splitlines(): breaks at \n, \r and \r\n, no empty last line
RECURSIVE splitlines(_)
splitlines(t) ==
    IF t = <<>> THEN <<>>
    ELSE IF \A i \in DOMAIN t : t[i] \notin LineBreaks THEN <<t>>
    ELSE LET k == CHOOSE i \in DOMAIN t :
                      t[i] \in LineBreaks /\ \A j \in 1..(i - 1) : t[j] \notin LineBreaks
             w == IF t[k] = "\r" /\ k < Len(t) /\ t[k + 1] = "\n" THEN 2 ELSE 1
         IN <<SubSeq(t, 1, k - 1)>> \o splitlines(SubSeq(t, k + w, Len(t)))

\* ------------------------------------------------------------------------
\* Claude37_round_5: row parser, separator predicate, validator
\* ------------------------------------------------------------------------
merge_loop_current(current, merged) ==
    IF current # <<>> THEN Append(merged, current[1]) ELSE merged

\* the loop with a continuation line appended as it is, not stripped
RECURSIVE merge_loop_unstripped(_, _, _, _)
merge_loop_unstripped(ls, i, merged, current) ==
    IF i > Len(ls) THEN merge_loop_current(current, merged)
    ELSE LET line == ls[i] IN
         IF HasPipe(line)
         THEN merge_loop_unstripped(ls, i + 1, merge_loop_current(current, merged),
                                    <<rstrip(line)>>)
         ELSE IF strip(line) # <<>>
         THEN merge_loop_unstripped(ls, i + 1, merged,
                                    IF current # <<>>
                                    THEN <<current[1] \o <<" ">> \o line>>
                                    ELSE <<rstrip(line)>>)
         ELSE merge_loop_unstripped(ls, i + 1, merge_loop_current(current, merged),
                                    <<>>)

\* the loop of merge_continuation_lines; current is <<>> for None, <<s>> for s
RECURSIVE merge_loop(_, _, _, _)
merge_loop(ls, i, merged, current) ==
    IF i > Len(ls) THEN merge_loop_current(current, merged)
    ELSE LET line == ls[i] IN
         IF HasPipe(line)
         THEN merge_loop(ls, i + 1, merge_loop_current(current, merged), <<rstrip(line)>>)
         ELSE IF strip(line) # <<>>
         THEN merge_loop(ls, i + 1, merged,
                         IF current # <<>>
                         THEN <<current[1] \o <<" ">> \o strip(line)>>
                         ELSE <<rstrip(line)>>)
         ELSE merge_loop(ls, i + 1, merge_loop_current(current, merged), <<>>)

merge_continuation_lines(ls) == merge_loop(ls, 1, <<>>, <<>>)

\* the loop of Grok3_round_5.merge_continuation_lines
RECURSIVE Grok3_merge_loop(_, _, _, _)
Grok3_merge_loop(ls, i, merged, current) ==
    IF i > Len(ls) THEN merge_loop_current(current, merged)
    ELSE LET line == ls[i] IN
         IF HasPipe(line)
         THEN Grok3_merge_loop(ls, i + 1, merge_loop_current(current, merged),
                               <<rstrip(line)>>)
         ELSE IF strip(line) # <<>> /\ current # <<>>
         THEN Grok3_merge_loop(ls, i + 1, merged,
                               <<current[1] \o <<" ">> \o strip(line)>>)
         ELSE Grok3_merge_loop(ls, i + 1,
                               Append(merge_loop_current(current, merged), line), <<>>)

Grok3_merge_continuation_lines(ls) == Grok3_merge_loop(ls, 1, <<>>, <<>>)

parse_row(line) ==
    IF line = <<>> \/ ~HasPipe(line) THEN <<>>
    ELSE LET s0 == strip(line)
             has_lead == startswith(s0, "|")
             has_tail == endswith(s0, "|")
             s1 == IF has_lead THEN Tail(s0) ELSE s0
             s2 == IF has_tail THEN SubSeq(s1, 1, Len(s1) - 1) ELSE s1
             parts == split(s2, "|")
         IN [i \in 1..Len(parts) |-> strip(parts[i])]

\* re.fullmatch(r':?-{3,}:?', cell.strip())
is_separator_cell(cell) ==
    LET c0 == strip(cell)
        c1 == IF startswith(c0, ":") THEN Tail(c0) ELSE c0
        c2 == IF endswith(c1, ":") THEN SubSeq(c1, 1, Len(c1) - 1) ELSE c1
    IN Len(c2) >= 3 /\ \A i \in DOMAIN c2 : c2[i] = "-"

is_separator_row(cells) ==
    IF cells = <<>> THEN FALSE
    ELSE \A i \in DOMAIN cells :
            strip(cells[i]) # <<>> => is_separator_cell(cells[i])

\* the rows of the lines that start with a pipe only
parsed_pipe_rows_leading(ls) ==
    LET LeadingPipe(line) == startswith(strip(line), "|")
        keep == SelectSeq(ls, LeadingPipe)
    IN [i \in 1..Len(keep) |-> parse_row(keep[i])]

\* [parse_row(line) for line in lines if '|' in line]
parsed_pipe_rows(ls) ==
    LET keep == SelectSeq(ls, HasPipe)
    IN [i \in 1..Len(keep) |-> parse_row(keep[i])]

\* is_valid_table without the column count check
is_valid_table_no_count(ls) ==
    IF Len(ls) < 2 THEN FALSE
    ELSE LET rows == parsed_pipe_rows(ls) IN
         IF Len(rows) < 2 THEN FALSE
         ELSE is_separator_row(rows[2])

is_valid_table(ls) ==
    IF Len(ls) < 2 THEN FALSE
    ELSE LET rows == parsed_pipe_rows(ls) IN
         IF Len(rows) < 2 THEN FALSE
         ELSE IF ~is_separator_row(rows[2]) THEN FALSE
         ELSE \A i \in DOMAIN rows : Len(rows[i]) = Len(rows[1])

\* ------------------------------------------------------------------------
\* Claude37_round_5: style, layout detection, normalisation, rebuilding
\* ------------------------------------------------------------------------
detect_table_style(line) ==
    LET s == strip(line) IN <<startswith(s, "|"), endswith(s, "|")>>

\* detect_separator_pattern with "more than half" in place of "at least half"
detect_separator_pattern_strict(parsed_rows) ==
    IF Len(parsed_rows) < 3 THEN FALSE
    ELSE LET sep_indices == {k \in DOMAIN parsed_rows : is_separator_row(parsed_rows[k])}
         IN IF Cardinality(sep_indices) <= 1 THEN FALSE
            ELSE LET odd_sep_count == Cardinality({k \in sep_indices : (k - 1) % 2 = 1})
                     total_odds == (Len(parsed_rows) - 1) \div 2
                 IN 2 * odd_sep_count > total_odds

\* rows are indexed from 1 here, so the code's index of row k is k - 1
detect_separator_pattern(parsed_rows) ==
    IF Len(parsed_rows) < 3 THEN FALSE
    ELSE LET sep_indices == {k \in DOMAIN parsed_rows : is_separator_row(parsed_rows[k])}
         IN IF Cardinality(sep_indices) <= 1 THEN FALSE
            ELSE LET odd_sep_count == Cardinality({k \in sep_indices : (k - 1) % 2 = 1})
                     total_odds == (Len(parsed_rows) - 1) \div 2
                 IN 2 * odd_sep_count >= total_odds

\* normalize_row cutting the excess cells off
normalize_row_truncate(row, target_cols) ==
    IF Len(row) < target_cols
    THEN row \o [i \in 1..(target_cols - Len(row)) |-> <<>>]
    ELSE IF Len(row) > target_cols
    THEN SubSeq(row, 1, target_cols)
    ELSE row

normalize_row(row, target_cols) ==
    IF Len(row) < target_cols
    THEN row \o [i \in 1..(target_cols - Len(row)) |-> <<>>]
    ELSE IF Len(row) > target_cols
    THEN IF target_cols > 1
         THEN SubSeq(row, 1, target_cols - 1)
                \o <<join(<<" ">>, SubSeq(row, target_cols, Len(row)))>>
         ELSE <<join(<<" ">>, row)>>
    ELSE row

rebuild_row(cells, style) ==
    IF cells = <<>> THEN <<>>
    ELSE LET row0 == join(<<" ", "|", " ">>, cells)
             row1 == IF style[1] THEN <<"|", " ">> \o row0 ELSE row0
         IN IF style[2] THEN row1 \o <<" ", "|">> ELSE row1

\* a separator cell of two hyphens
TwoDashes ==
    <<"-", "-">>

\* '---'
Dashes ==
    <<"-", "-", "-">>

\* the width of the header taken for the width of the table
max_cols_of_header(parsed_rows) ==
    IF parsed_rows = <<>> THEN 0 ELSE Len(parsed_rows[1])

\* max(len(row) for row in parsed_rows) if parsed_rows else 0
max_cols_of(parsed_rows) ==
    IF parsed_rows = <<>> THEN 0
    ELSE CHOOSE m \in {Len(parsed_rows[k]) : k \in DOMAIN parsed_rows} :
            \A k \in DOMAIN parsed_rows : Len(parsed_rows[k]) <= m

\* the while loop adding the data rows without a separator after them
RECURSIVE repeated_rows_bare(_, _, _, _, _)
repeated_rows_bare(parsed_rows, i, max_cols, separator, style) ==
    IF i > Len(parsed_rows) THEN <<>>
    ELSE IF is_separator_row(parsed_rows[i])
    THEN repeated_rows_bare(parsed_rows, i + 1, max_cols, separator, style)
    ELSE <<rebuild_row(normalize_row(parsed_rows[i], max_cols), style)>>
           \o repeated_rows_bare(parsed_rows, i + 1, max_cols, separator, style)

\* the while loop of the repeated layout: data row, then a fresh separator
RECURSIVE repeated_rows(_, _, _, _, _)
repeated_rows(parsed_rows, i, max_cols, separator, style) ==
    IF i > Len(parsed_rows) THEN <<>>
    ELSE IF is_separator_row(parsed_rows[i])
    THEN repeated_rows(parsed_rows, i + 1, max_cols, separator, style)
    ELSE <<rebuild_row(normalize_row(parsed_rows[i], max_cols), style),
           rebuild_row(separator, style)>>
           \o repeated_rows(parsed_rows, i + 1, max_cols, separator, style)

\* the for loop taking row 1 for the separator whatever it is
RECURSIVE standard_rows_after_second(_, _, _, _)
standard_rows_after_second(parsed_rows, i, max_cols, style) ==
    IF i > Len(parsed_rows) THEN <<>>
    ELSE IF i > 2 /\ ~is_separator_row(parsed_rows[i])
    THEN <<rebuild_row(normalize_row(parsed_rows[i], max_cols), style)>>
           \o standard_rows_after_second(parsed_rows, i + 1, max_cols, style)
    ELSE standard_rows_after_second(parsed_rows, i + 1, max_cols, style)

\* the for loop of the standard layout: every non-separator row after row 0
RECURSIVE standard_rows(_, _, _, _)
standard_rows(parsed_rows, i, max_cols, style) ==
    IF i > Len(parsed_rows) THEN <<>>
    ELSE IF ~is_separator_row(parsed_rows[i])
    THEN <<rebuild_row(normalize_row(parsed_rows[i], max_cols), style)>>
           \o standard_rows(parsed_rows, i + 1, max_cols, style)
    ELSE standard_rows(parsed_rows, i + 1, max_cols, style)

\* fix_table_block that always lays the rows out as a standard table
fix_table_block_standard_only(merged_lines) ==
    LET style == detect_table_style(merged_lines[1])
        parsed_rows == parsed_pipe_rows(merged_lines)
        max_cols == max_cols_of(parsed_rows)
        header == normalize_row(parsed_rows[1], max_cols)
        separator == [i \in 1..max_cols |-> Dashes]
        fixed_lines == <<rebuild_row(header, style), rebuild_row(separator, style)>>
    IN fixed_lines \o standard_rows(parsed_rows, 2, max_cols, style)

\* fix_table_block reusing the table's own separator row when row 1 is one
fix_table_block_own_separator(merged_lines) ==
    LET style == detect_table_style(merged_lines[1])
        parsed_rows == parsed_pipe_rows(merged_lines)
        max_cols == max_cols_of(parsed_rows)
        has_separators_after_rows == detect_separator_pattern(parsed_rows)
        header == normalize_row(parsed_rows[1], max_cols)
        separator == IF Len(parsed_rows) >= 2 /\ is_separator_row(parsed_rows[2])
                     THEN normalize_row(parsed_rows[2], max_cols)
                     ELSE [i \in 1..max_cols |-> Dashes]
        fixed_lines == <<rebuild_row(header, style), rebuild_row(separator, style)>>
    IN IF has_separators_after_rows
       THEN fixed_lines \o repeated_rows(parsed_rows, 2, max_cols, separator, style)
       ELSE fixed_lines \o standard_rows(parsed_rows, 2, max_cols, style)

fix_table_block(merged_lines) ==
    LET style == detect_table_style(merged_lines[1])
        parsed_rows == parsed_pipe_rows(merged_lines)
        max_cols == max_cols_of(parsed_rows)
        has_separators_after_rows == detect_separator_pattern(parsed_rows)
        header == normalize_row(parsed_rows[1], max_cols)
        separator == [i \in 1..max_cols |-> Dashes]
        fixed_lines == <<rebuild_row(header, style), rebuild_row(separator, style)>>
    IN IF has_separators_after_rows
       THEN fixed_lines \o repeated_rows(parsed_rows, 2, max_cols, separator, style)
       ELSE fixed_lines \o standard_rows(parsed_rows, 2, max_cols, style)

\* fix_table_block raises IndexError at merged_lines[0] or parsed_rows[0]
fix_table_block_raises(merged_lines) ==
    merged_lines = <<>> \/ parsed_pipe_rows(merged_lines) = <<>>

\* process_table_block raises when it reaches a fix_table_block that raises
process_table_block_raises(block_lines) ==
    LET merged_lines == merge_continuation_lines(block_lines) IN
    /\ ~(Len(merged_lines) < 2 \/ ~\E i \in DOMAIN merged_lines : HasPipe(merged_lines[i]))
    /\ ~is_valid_table(merged_lines)
    /\ fix_table_block_raises(merged_lines)

\* process_table_block returning the merged lines of a valid table
process_table_block_merged(block_lines) ==
    LET merged_lines == merge_continuation_lines(block_lines) IN
    IF Len(merged_lines) < 2 \/ ~\E i \in DOMAIN merged_lines : HasPipe(merged_lines[i])
    THEN block_lines
    ELSE IF is_valid_table(merged_lines) THEN merged_lines
    ELSE fix_table_block(merged_lines)

\* process_table_block without the early return for fewer than two lines
process_table_block_no_skip(block_lines) ==
    LET merged_lines == merge_continuation_lines(block_lines) IN
    IF ~\E i \in DOMAIN merged_lines : HasPipe(merged_lines[i])
    THEN block_lines
    ELSE IF is_valid_table(merged_lines) THEN block_lines
    ELSE fix_table_block(merged_lines)

process_table_block(block_lines) ==
    LET merged_lines == merge_continuation_lines(block_lines) IN
    IF Len(merged_lines) < 2 \/ ~\E i \in DOMAIN merged_lines : HasPipe(merged_lines[i])
    THEN block_lines
    ELSE IF is_valid_table(merged_lines) THEN block_lines
    ELSE fix_table_block(merged_lines)

\* ------------------------------------------------------------------------
\* O1_pro_round_4 and O3_mini_high_round_4: fix_table_block
\* ------------------------------------------------------------------------
\* O1_pro_round_4.merge_continuation_lines: cur = ln, the line as it is
RECURSIVE O1_merge_loop(_, _, _, _)
O1_merge_loop(ls, i, merged, cur) ==
    IF i > Len(ls) THEN merge_loop_current(cur, merged)
    ELSE LET ln == ls[i] IN
         IF HasPipe(ln)
         THEN O1_merge_loop(ls, i + 1, merge_loop_current(cur, merged), <<ln>>)
         ELSE IF strip(ln) # <<>>
         THEN O1_merge_loop(ls, i + 1, merged,
                            IF cur # <<>> THEN <<cur[1] \o <<" ">> \o strip(ln)>>
                            ELSE <<ln>>)
         ELSE O1_merge_loop(ls, i + 1,
                            Append(merge_loop_current(cur, merged), ln), <<>>)

\* O3_mini_high_round_4.merge_continuation_lines: current = line.rstrip()
RECURSIVE O3_merge_loop(_, _, _, _)
O3_merge_loop(ls, i, merged, current) ==
    IF i > Len(ls) THEN merge_loop_current(current, merged)
    ELSE LET line == ls[i] IN
         IF HasPipe(line)
         THEN O3_merge_loop(ls, i + 1, merge_loop_current(current, merged),
                            <<rstrip(line)>>)
         ELSE IF strip(line) # <<>>
         THEN O3_merge_loop(ls, i + 1, merged,
                            IF current # <<>>
                            THEN <<current[1] \o <<" ">> \o strip(line)>>
                            ELSE <<rstrip(line)>>)
         ELSE O3_merge_loop(ls, i + 1,
                            Append(merge_loop_current(current, merged), line), <<>>)

\* O1_pro_round_4.parse_row: both pipe flags are read before either is cut
O1_parse_row(line) ==
    LET s0 == strip(line)
        has_lead == startswith(s0, "|")
        has_tail == endswith(s0, "|")
        s1 == IF has_lead THEN Tail(s0) ELSE s0
        s2 == IF has_tail THEN SubSeq(s1, 1, Len(s1) - 1) ELSE s1
        parts == split(s2, "|")
    IN [i \in 1..Len(parts) |-> strip(parts[i])]

\* O3_mini_high_round_4.parse_row: the trailing pipe is looked for after the
\* leading one was cut
O3_parse_row(line) ==
    LET s0 == strip(line)
        s1 == IF startswith(s0, "|") THEN Tail(s0) ELSE s0
        s2 == IF endswith(s1, "|") THEN SubSeq(s1, 1, Len(s1) - 1) ELSE s1
        parts == split(s2, "|")
    IN [i \in 1..Len(parts) |-> strip(parts[i])]

\* all(is_separator_cell(c) for c in cells if c.strip()), in both classes
O_is_separator_row(cells) ==
    \A i \in DOMAIN cells : strip(cells[i]) # <<>> => is_separator_cell(cells[i])

\* r + [''] * (n - len(r)), r[:n-1] + [' '.join(r[n-1:])], or r
O_normalize(r, n) ==
    IF Len(r) < n THEN r \o [i \in 1..(n - Len(r)) |-> <<>>]
    ELSE IF Len(r) > n
    THEN SubSeq(r, 1, n - 1) \o <<join(<<" ">>, SubSeq(r, n, Len(r)))>>
    ELSE r

\* " | ".join(cells) with the pipes of the style
O_rebuild_row(cells, style) ==
    LET row0 == join(<<" ", "|", " ">>, cells)
        row1 == IF style[1] THEN <<"|", " ">> \o row0 ELSE row0
    IN IF style[2] THEN row1 \o <<" ", "|">> ELSE row1

O_max_cols(rows) ==
    CHOOSE m \in {Len(rows[k]) : k \in DOMAIN rows} :
        \A k \in DOMAIN rows : Len(rows[k]) <= m

\* O1_pro_round_4.is_valid_table: every line is parsed
O1_is_valid_table(ls) ==
    IF Len(ls) < 2 THEN FALSE
    ELSE LET rows == [k \in DOMAIN ls |-> O1_parse_row(ls[k])] IN
         IF ~O_is_separator_row(rows[2]) THEN FALSE
         ELSE \A k \in DOMAIN rows : Len(rows[k]) = Len(rows[1])

\* O3_mini_high_round_4.is_valid_table: the lines with a pipe are parsed
O3_is_valid_table(ls) ==
    IF Len(ls) < 2 THEN FALSE
    ELSE LET keep == SelectSeq(ls, HasPipe)
             rows == [k \in DOMAIN keep |-> O3_parse_row(keep[k])]
         IN IF Len(rows) < 2 THEN FALSE
            ELSE IF ~O_is_separator_row(rows[2]) THEN FALSE
            ELSE \A k \in DOMAIN rows : Len(rows[k]) = Len(rows[1])

\* odd_sep_count >= (len(rows) - 1) // 2, over the rows at odd indices
O1_detect_repeated_separators(rows) ==
    IF Len(rows) < 3 THEN FALSE
    ELSE Cardinality({i \in 1..(Len(rows) - 1) :
                         i % 2 = 1 /\ O_is_separator_row(rows[i + 1])})
            >= (Len(rows) - 1) \div 2

\* len(sep_indices) >= total_odds and all(i % 2 == 1 for i in sep_indices)
O3_detect_separator_pattern(parsed_rows) ==
    IF Len(parsed_rows) < 3 THEN FALSE
    ELSE LET sep_indices == {i \in 0..(Len(parsed_rows) - 1) :
                                O_is_separator_row(parsed_rows[i + 1])}
         IN /\ Cardinality(sep_indices) >= (Len(parsed_rows) - 1) \div 2
            /\ \A i \in sep_indices : i % 2 = 1

\* the while loop of both classes: each data row from row 1 on, then "---"
RECURSIVE O_repeated_rows(_, _, _)
O_repeated_rows(rows, i, max_cols) ==
    IF i > Len(rows) THEN <<>>
    ELSE IF O_is_separator_row(rows[i]) THEN O_repeated_rows(rows, i + 1, max_cols)
    ELSE <<rows[i], [c \in 1..max_cols |-> Dashes]>>
           \o O_repeated_rows(rows, i + 1, max_cols)

\* for i in range(2, len(rows_parsed)) / for row in parsed[2:]: the rows
\* from row 2 on that are not separator rows
RECURSIVE O_standard_rows(_, _)
O_standard_rows(rows, i) ==
    IF i > Len(rows) THEN <<>>
    ELSE IF ~O_is_separator_row(rows[i])
    THEN <<rows[i]>> \o O_standard_rows(rows, i + 1)
    ELSE O_standard_rows(rows, i + 1)

O1_fix_table_block(block) ==
    LET merged == O1_merge_loop(block, 1, <<>>, <<>>) IN
    IF Len(merged) < 2 THEN block
    ELSE IF O1_is_valid_table(merged) THEN block
    ELSE LET parsed == [k \in DOMAIN merged |-> O1_parse_row(merged[k])]
             style == <<startswith(strip(merged[1]), "|"),
                        endswith(strip(merged[1]), "|")>>
             max_cols == O_max_cols(parsed)
             repeated_sep == O1_detect_repeated_separators(parsed)
             rows_parsed == [k \in DOMAIN parsed |-> O_normalize(parsed[k], max_cols)]
             head == <<rows_parsed[1], [c \in 1..max_cols |-> Dashes]>>
             fixed == IF repeated_sep
                      THEN head \o O_repeated_rows(rows_parsed, 2, max_cols)
                      ELSE head \o O_standard_rows(rows_parsed, 3)
         IN [k \in DOMAIN fixed |-> O_rebuild_row(fixed[k], style)]

O3_fix_table_block(merged_lines, first_line) ==
    LET rows == [k \in DOMAIN merged_lines |-> O3_parse_row(merged_lines[k])]
        style == detect_table_style(first_line)
        max_cols == O_max_cols(rows)
        parsed == [k \in DOMAIN rows |-> O_normalize(rows[k], max_cols)]
        head == <<parsed[1], [c \in 1..max_cols |-> Dashes]>>
        fixed == IF O3_detect_separator_pattern(parsed)
                 THEN head \o O_repeated_rows(parsed, 2, max_cols)
                 ELSE head \o O_standard_rows(parsed, 3)
    IN [k \in DOMAIN fixed |-> O_rebuild_row(fixed[k], style)]

O3_process_table_block(block_lines) ==
    LET merged == O3_merge_loop(block_lines, 1, <<>>, <<>>) IN
    IF Len(merged) < 2 \/ ~\E i \in DOMAIN merged : HasPipe(merged[i])
    THEN block_lines
    ELSE IF O3_is_valid_table(merged) THEN block_lines
    ELSE O3_fix_table_block(merged, block_lines[1])

\* ------------------------------------------------------------------------
\* Input documents
\* ------------------------------------------------------------------------
Blank == <<>>
Prose == <<"x">>
RowAB == <<"a", "|", "b", " ">>
Row123 == <<"1", "|", "2", "|", "3">>
RowPiped == <<"|", "a", "|">>
RowEmpty == <<"|", " ", "|">>
SepTwo == <<"-", "-", "-", "|", "-", "-", "-">>
SepPiped == <<"|", "-", "-", "-", "|">>
SepProse == <<":", "-", "-", "-", ":">>
OnlyPipe == <<"|">>

InputLines ==
    {Blank, Prose, RowAB, Row123, RowPiped, RowEmpty, SepTwo, SepPiped, SepProse,
     OnlyPipe}

Terminators == {LF, CRLF}

Docs == UNION {[1..n -> InputLines] : n \in 0..MaxLines}

\* ------------------------------------------------------------------------
\* fix_invalid_markdown_tables as a state machine, one step per loop turn
\* ------------------------------------------------------------------------
VARIABLES markdown_text, lines, idx, output, table_block, in_table, pc,
          blocks, results, fn, arg, ret, other, tour

vars == <<markdown_text, lines, idx, output, table_block, in_table, pc,
          blocks, results, fn, arg, ret, other, tour>>

\* other: a second invocation of fix_invalid_markdown_tables with its own
\* locals; tour: the state of an LLMTournament. Both are off unless used.
NoOther == other = [pc |-> "off"]
NoTour == tour = [phase |-> "off"]

\* fn, arg, ret: a direct call of one helper, ret = <<>> until it returned
NoCall == fn = "none" /\ arg = <<>> /\ ret = <<>>

\* a processed block: its original lines, what process_table_block returned,
\* the number of output lines emitted before it and the index of its first line
Processed(block_lines, at) ==
    [orig |-> block_lines, out |-> process_table_block(block_lines), at |-> at,
     first |-> idx - Len(block_lines)]

Init ==
    /\ \E doc \in Docs, term \in Terminators, trailing \in BOOLEAN :
          markdown_text = join(term, doc) \o (IF trailing THEN term ELSE <<>>)
    /\ lines = splitlines(markdown_text)
    /\ idx = 1
    /\ output = <<>>
    /\ table_block = <<>>
    /\ in_table = FALSE
    /\ pc = "scan"
    /\ blocks = <<>>
    /\ results = <<>>
    /\ NoCall /\ NoOther /\ NoTour

\* if '|' in line
PipeLine ==
    /\ pc = "scan" /\ idx <= Len(lines)
    /\ HasPipe(lines[idx])
    /\ table_block' = Append(table_block, lines[idx])
    /\ in_table' = TRUE
    /\ idx' = idx + 1
    /\ UNCHANGED <<markdown_text, lines, output, pc, blocks, results, fn, arg, ret, other, tour>>

\* the continuation branch taken whether or not a block is open
ContinuationLine_unguarded ==
    /\ pc = "scan" /\ idx <= Len(lines)
    /\ ~HasPipe(lines[idx])
    /\ strip(lines[idx]) # <<>>
    /\ table_block' = Append(table_block, lines[idx])
    /\ idx' = idx + 1
    /\ UNCHANGED <<markdown_text, lines, output, in_table, pc, blocks, results, fn, arg, ret, other, tour>>

\* elif in_table and line.strip()
ContinuationLine ==
    /\ pc = "scan" /\ idx <= Len(lines)
    /\ ~HasPipe(lines[idx])
    /\ in_table /\ strip(lines[idx]) # <<>>
    /\ table_block' = Append(table_block, lines[idx])
    /\ idx' = idx + 1
    /\ UNCHANGED <<markdown_text, lines, output, in_table, pc, blocks, results, fn, arg, ret, other, tour>>

\* the else branch emitting the line before it flushes the open block
PlainLine_line_first ==
    /\ pc = "scan" /\ idx <= Len(lines)
    /\ ~HasPipe(lines[idx])
    /\ ~(in_table /\ strip(lines[idx]) # <<>>)
    /\ IF in_table
       THEN /\ output' = Append(output, lines[idx]) \o process_table_block(table_block)
            /\ blocks' = Append(blocks, Processed(table_block, Len(output)))
            /\ table_block' = <<>>
            /\ in_table' = FALSE
       ELSE /\ output' = Append(output, lines[idx])
            /\ UNCHANGED <<blocks, table_block, in_table>>
    /\ idx' = idx + 1
    /\ UNCHANGED <<markdown_text, lines, pc, results, fn, arg, ret, other, tour>>

\* else: flush the open block, then emit the line; an exception raised by
\* process_table_block ends the call
PlainLine ==
    /\ pc = "scan" /\ idx <= Len(lines)
    /\ ~HasPipe(lines[idx])
    /\ ~(in_table /\ strip(lines[idx]) # <<>>)
    /\ IF in_table /\ process_table_block_raises(table_block)
       THEN /\ pc' = "raised"
            /\ UNCHANGED <<output, blocks, table_block, in_table, idx>>
       ELSE /\ IF in_table
               THEN /\ output' = Append(output \o process_table_block(table_block),
                                        lines[idx])
                    /\ blocks' = Append(blocks, Processed(table_block, Len(output)))
                    /\ table_block' = <<>>
                    /\ in_table' = FALSE
               ELSE /\ output' = Append(output, lines[idx])
                    /\ UNCHANGED <<blocks, table_block, in_table>>
            /\ idx' = idx + 1
            /\ pc' = pc
    /\ UNCHANGED <<markdown_text, lines, results, fn, arg, ret, other, tour>>

\* after the loop: flush the remaining block and join; an exception raised
\* by process_table_block ends the call
EndOfDocument ==
    /\ pc = "scan" /\ idx > Len(lines)
    /\ IF table_block # <<>> /\ process_table_block_raises(table_block)
       THEN /\ pc' = "raised"
            /\ UNCHANGED <<output, results, blocks>>
       ELSE /\ LET final == IF table_block # <<>>
                            THEN output \o process_table_block(table_block)
                            ELSE output
               IN /\ output' = final
                  /\ results' = Append(results, join(LF, final))
            /\ blocks' = IF table_block # <<>>
                         THEN Append(blocks, Processed(table_block, Len(output)))
                         ELSE blocks
            /\ pc' = "done"
    /\ UNCHANGED <<markdown_text, lines, idx, table_block, in_table, fn, arg, ret, other, tour>>

\* the returned text is passed to fix_invalid_markdown_tables again
Reapply ==
    /\ pc = "done" /\ Len(results) < MaxPasses
    /\ markdown_text' = results[Len(results)]
    /\ lines' = splitlines(markdown_text')
    /\ idx' = 1
    /\ output' = <<>>
    /\ table_block' = <<>>
    /\ in_table' = FALSE
    /\ pc' = "scan"
    /\ blocks' = <<>>
    /\ UNCHANGED <<results, fn, arg, ret, other, tour>>

Next == PipeLine \/ ContinuationLine \/ PlainLine \/ EndOfDocument \/ Reapply

Spec == Init /\ [][Next]_vars

TypeOK ==
    /\ pc \in {"scan", "done", "raised"}
    /\ idx \in 1..(Len(lines) + 1)
    /\ in_table \in BOOLEAN
    /\ Len(results) <= MaxPasses

\* ------------------------------------------------------------------------
\* Direct calls of the helpers on bounded inputs
\* ------------------------------------------------------------------------
MaxRows == 7

\* merged lines as fix_table_block receives them: pipe lines, not a valid table
RowLines == {RowPiped, SepPiped, SepTwo}
InvalidTables ==
    {t \in UNION {[1..n -> RowLines] : n \in 2..MaxRows} : ~is_valid_table(t)}

Idle ==
    /\ markdown_text = <<>> /\ lines = <<>> /\ idx = 1 /\ output = <<>>
    /\ table_block = <<>> /\ in_table = FALSE /\ pc = "call"
    /\ blocks = <<>> /\ results = <<>>

\* blocks as the segmenter forms them: a pipe line first, no blank line
MaxBlock == 5
BlockLines == {RowPiped, RowAB, SepPiped, SepTwo, Prose}
BlockInputs ==
    {b \in UNION {[1..n -> BlockLines] : n \in 1..MaxBlock} : HasPipe(b[1])}
MergedBlocks == {merge_continuation_lines(b) : b \in BlockInputs}

\* blocks for merge_continuation_lines, with an indented continuation line
ProsePadded == <<" ", "x", " ">>
MergeInputs ==
    {b \in UNION {[1..n -> BlockLines \cup {ProsePadded}] : n \in 1..MaxBlock} :
        HasPipe(b[1])}

\* blocks as the segmenters of O1_pro_round_4 and O3_mini_high_round_4 form
\* them: pipe lines only
PipeBlocks == {b \in BlockInputs : \A i \in DOMAIN b : HasPipe(b[i])}

\* rows and target widths for normalize_row
MaxCells == 4
Cells == {<<>>, <<"a">>, <<"b">>}
RowsAndWidths ==
    (UNION {[1..n -> Cells] : n \in 0..MaxCells}) \X (1..MaxCells)

\* non-empty lists of trimmed cells without a pipe, with each pipe style
CellsAndStyles ==
    (UNION {[1..n -> Cells] : n \in 1..MaxCells}) \X (BOOLEAN \X BOOLEAN)

InitFn ==
    /\ Idle /\ NoOther /\ NoTour
    /\ \/ fn = "detect_separator_pattern" /\ arg \in InvalidTables
       \/ fn = "is_valid_table" /\ arg \in MergedBlocks
       \/ fn = "normalize_row" /\ arg \in RowsAndWidths
       \/ fn = "merge_continuation_lines" /\ arg \in MergeInputs
       \/ fn = "process_table_block" /\ arg \in BlockInputs
       \/ fn = "rebuild_row" /\ arg \in CellsAndStyles
       \/ fn = "O1_pro_round_4.fix_table_block" /\ arg \in PipeBlocks
       \/ fn = "O3_mini_high_round_4.process_table_block" /\ arg \in PipeBlocks
    /\ ret = <<>>

\* what a direct call leaves alone
frame == <<markdown_text, lines, idx, output, table_block, in_table, pc,
           blocks, results, fn, arg, other, tour>>

\* has_separators_after_rows = detect_separator_pattern(parsed_rows)
CallDetectSeparatorPattern ==
    /\ pc = "call" /\ fn = "detect_separator_pattern" /\ ret = <<>>
    /\ ret' = <<detect_separator_pattern(parsed_pipe_rows(arg))>>
    /\ UNCHANGED frame

\* if Claude37_round_5.is_valid_table(merged_lines)
CallIsValidTable ==
    /\ pc = "call" /\ fn = "is_valid_table" /\ ret = <<>>
    /\ ret' = <<is_valid_table(arg)>>
    /\ UNCHANGED frame

\* normalize_row(row, target_cols)
CallNormalizeRow ==
    /\ pc = "call" /\ fn = "normalize_row" /\ ret = <<>>
    /\ ret' = <<normalize_row(arg[1], arg[2])>>
    /\ UNCHANGED frame

\* merged_lines = Claude37_round_5.merge_continuation_lines(block_lines)
CallMergeContinuationLines ==
    /\ pc = "call" /\ fn = "merge_continuation_lines" /\ ret = <<>>
    /\ ret' = <<merge_continuation_lines(arg)>>
    /\ UNCHANGED frame

\* output.extend(Claude37_round_5.process_table_block(table_block))
CallProcessTableBlock ==
    /\ pc = "call" /\ fn = "process_table_block" /\ ret = <<>>
    /\ ret' = <<process_table_block(arg)>>
    /\ UNCHANGED frame

\* fixed_lines.append(Claude37_round_5.rebuild_row(data_row, style))
CallRebuildRow ==
    /\ pc = "call" /\ fn = "rebuild_row" /\ ret = <<>>
    /\ ret' = <<rebuild_row(arg[1], arg[2])>>
    /\ UNCHANGED frame

\* out.extend(fix_table_block(block)) of O1_pro_round_4
CallO1FixTableBlock ==
    /\ pc = "call" /\ fn = "O1_pro_round_4.fix_table_block" /\ ret = <<>>
    /\ ret' = <<O1_fix_table_block(arg)>>
    /\ UNCHANGED frame

\* output.extend(O3_mini_high_round_4.process_table_block(table_block))
CallO3ProcessTableBlock ==
    /\ pc = "call" /\ fn = "O3_mini_high_round_4.process_table_block" /\ ret = <<>>
    /\ ret' = <<O3_process_table_block(arg)>>
    /\ UNCHANGED frame

NextFn ==
    \/ CallDetectSeparatorPattern
    \/ CallIsValidTable
    \/ CallNormalizeRow
    \/ CallMergeContinuationLines
    \/ CallProcessTableBlock
    \/ CallRebuildRow
    \/ CallO1FixTableBlock
    \/ CallO3ProcessTableBlock

SpecFn == InitFn /\ [][NextFn]_vars

\* ------------------------------------------------------------------------
\* Properties
\* ------------------------------------------------------------------------
AllBlocks == {blocks[k] : k \in DOMAIN blocks}
Merged(b) == merge_continuation_lines(b.orig)
Rows(b) == parsed_pipe_rows(Merged(b))
\* the block went through fix_table_block
Rebuilt(b) == Len(Merged(b)) >= 2 /\ ~is_valid_table(Merged(b))
\* the lines the block contributed to the output
Emitted(b) == SubSeq(output, b.at + 1, b.at + Len(b.out))
\* c is a substring of line
Occurs(c, line) ==
    \E p \in 1..(Len(line) - Len(c) + 1) : SubSeq(line, p, p + Len(c) - 1) = c
AllDashes(cells) == \A i \in DOMAIN cells : cells[i] = Dashes

\* C1: repairing the repaired text returns the repaired text unchanged.
Idempotence == Len(results) >= 2 => results[2] = results[1]

\* C2: a block whose merged rows are a valid table is in the output as its
\* original physical lines, contiguous and in order.
VerbatimPreservation ==
    \A b \in AllBlocks :
        is_valid_table(Merged(b)) =>
            SubSeq(output, b.at + 1, b.at + Len(b.orig)) = b.orig

\* C2 witness: a valid block with a wrapped cell has been emitted.
ValidWrappedBlockEmitted ==
    \E b \in AllBlocks :
        /\ is_valid_table(Merged(b))
        /\ Len(Merged(b)) < Len(b.orig)
        /\ pc = "done"

\* C3: when every block is valid after merging (or there is none), the
\* returned text is the input text, character for character.
ValidTextUnchanged ==
    (pc = "done" /\ \A b \in AllBlocks : is_valid_table(Merged(b)))
        => results[Len(results)] = markdown_text

\* C4: all lines of a rebuilt block have the same cell count under parse_row.
ColumnUniformity ==
    \A b \in AllBlocks :
        Rebuilt(b) =>
            \A i, j \in DOMAIN Emitted(b) :
                Len(parse_row(Emitted(b)[i])) = Len(parse_row(Emitted(b)[j]))

\* the cells occur in the line, left to right
RECURSIVE CellsOccur(_, _)
CellsOccur(cells, line) ==
    IF cells = <<>> THEN TRUE
    ELSE \E p \in 1..(Len(line) - Len(cells[1]) + 1) :
            /\ SubSeq(line, p, p + Len(cells[1]) - 1) = cells[1]
            /\ CellsOccur(Tail(cells), SubSeq(line, p + Len(cells[1]), Len(line)))

\* every row has its cells in a line of outs, the rows in their order
RECURSIVE RowsOccur(_, _)
RowsOccur(rows, outs) ==
    IF rows = <<>> THEN TRUE
    ELSE IF outs = <<>> THEN FALSE
    ELSE \/ CellsOccur(rows[1], outs[1]) /\ RowsOccur(Tail(rows), Tail(outs))
         \/ RowsOccur(rows, Tail(outs))

\* the parsed pipe lines of the block whose merged row is not a separator row
KeptPipeRows(b) ==
    LET pipes == SelectSeq(b.orig, HasPipe)
        keep == {k \in DOMAIN pipes : ~is_separator_row(Rows(b)[k])}
        nth(n) == CHOOSE k \in keep : Cardinality({j \in keep : j < k}) = n - 1
    IN [n \in 1..Cardinality(keep) |-> parse_row(pipes[nth(n)])]

\* C5: plain lines are in the output; the cells of every pipe line whose
\* merged row is not a separator row are in the output block, rows and cells
\* in order; the text of every continuation line is in the output block.
NoContentDiscarded ==
    /\ \A i \in 1..(idx - 1) :
          (~\E b \in AllBlocks : i \in b.first..(b.first + Len(b.orig) - 1))
          /\ i < idx - Len(table_block)
            => \E j \in DOMAIN output : output[j] = lines[i]
    /\ \A b \in AllBlocks :
          /\ RowsOccur(KeptPipeRows(b), Emitted(b))
          /\ \A i \in DOMAIN b.orig :
                ~HasPipe(b.orig[i]) =>
                    \E j \in DOMAIN Emitted(b) : Occurs(strip(b.orig[i]), Emitted(b)[j])

\* C6: every line of a rebuilt block that parses to a separator row has only
\* "---" cells.
SeparatorCanonical ==
    \A b \in AllBlocks :
        Rebuilt(b) =>
            \A i \in DOMAIN Emitted(b) :
                is_separator_row(parse_row(Emitted(b)[i]))
                    => AllDashes(parse_row(Emitted(b)[i]))

\* C6 as amended: every line of a rebuilt block after its first line (the
\* header, row 0 as it was given) that parses to a separator row has only
\* "---" cells.
SeparatorCanonicalAfterHeader ==
    \A b \in AllBlocks :
        Rebuilt(b) =>
            \A i \in DOMAIN Emitted(b) :
                (i > 1 /\ is_separator_row(parse_row(Emitted(b)[i])))
                    => AllDashes(parse_row(Emitted(b)[i]))

\* C6 witness: a block with a separator row that has a cell other than "---"
\* after row 0 has been rebuilt.
AlignedSeparatorRebuilt ==
    \E b \in AllBlocks :
        /\ Rebuilt(b)
        /\ \E k \in 2..Len(Rows(b)) :
              is_separator_row(Rows(b)[k]) /\ ~AllDashes(Rows(b)[k])
        /\ is_separator_row(parse_row(Emitted(b)[2]))
        /\ pc = "done"

\* the first two lines of the block's output are the header padded to the
\* widest row and a separator row of "---" cells
HeaderThenSeparator(b) ==
    LET style == detect_table_style(Merged(b)[1])
        width == max_cols_of(Rows(b))
    IN /\ Len(b.out) >= 2
       /\ Emitted(b)[1] = rebuild_row(normalize_row(Rows(b)[1], width), style)
       /\ Len(parse_row(Emitted(b)[2])) = width
       /\ AllDashes(parse_row(Emitted(b)[2]))

\* C7: a block is in the output as its original lines when its merged rows
\* are valid, and as a rebuilt table (header, then "---" separator) when
\* they are not.
ValidOrRebuilt ==
    \A b \in AllBlocks :
        IF is_valid_table(Merged(b))
        THEN Emitted(b) = b.orig
        ELSE HeaderThenSeparator(b)

\* C7 as amended: a block with fewer than two merged rows, or with valid
\* merged rows, is in the output as its original lines; a block with at least
\* two merged rows that are not valid is replaced by a rebuilt table (header,
\* then "---" separator).
ValidOrShortOrRebuilt ==
    \A b \in AllBlocks :
        IF Len(Merged(b)) < 2 \/ is_valid_table(Merged(b))
        THEN Emitted(b) = b.orig
        ELSE HeaderThenSeparator(b)

\* C7 witness: a block of at least two merged rows that are not valid has
\* been replaced by lines other than its own.
InvalidBlockReplaced ==
    \E b \in AllBlocks :
        /\ Rebuilt(b)
        /\ Emitted(b) # b.orig
        /\ pc = "done"

\* C8: every line of a rebuilt block begins with "| " iff the block's first
\* original line, trimmed, starts with '|', and ends with " |" iff that line,
\* trimmed, ends with '|'.
CanonicalPipeStyle ==
    \A b \in AllBlocks :
        Rebuilt(b) =>
            \A i \in DOMAIN Emitted(b) :
                LET line == Emitted(b)[i]
                    n == Len(line)
                IN /\ (n >= 2 /\ SubSeq(line, 1, 2) = <<"|", " ">>)
                        <=> startswith(strip(b.orig[1]), "|")
                   /\ (n >= 2 /\ SubSeq(line, n - 1, n) = <<" ", "|">>)
                        <=> endswith(strip(b.orig[1]), "|")

\* C9: a row of only empty cells is not a separator row.
EmptyRowNotSeparator ==
    \A b \in AllBlocks :
        \A k \in DOMAIN Rows(b) :
            (\A i \in DOMAIN Rows(b)[k] : Rows(b)[k][i] = <<>>)
                => ~is_separator_row(Rows(b)[k])

\* the separator rows of the call's argument, by the code's 0-based index
SepIndices == {k \in 0..(Len(arg) - 1) : is_separator_row(parse_row(arg[k + 1]))}
OddSepIndices == {k \in SepIndices : k % 2 = 1}

ValidityPredicate ==
    (fn = "is_valid_table" /\ ret # <<>>) =>
        (ret[1] <=> (/\ Len(arg) >= 2
                     /\ is_separator_row(parse_row(arg[2]))
                     /\ \A i \in DOMAIN arg :
                           Len(parse_row(arg[i])) = Len(parse_row(arg[1]))))

\* C11 witness: a table of three or more rows was found valid.
LongTableFoundValid ==
    fn = "is_valid_table" /\ ret = <<TRUE>> /\ Len(arg) >= 3

\* the merged rows of the block of a direct call, and of what it returned
ArgRows == parsed_pipe_rows(merge_continuation_lines(arg))
RetRows == parsed_pipe_rows(merge_continuation_lines(ret[1]))

\* a header, then separator row and data row in turn, two separators or more
Alternating(rows) ==
    /\ Len(rows) >= 4
    /\ \A k \in DOMAIN rows : is_separator_row(rows[k]) <=> (k - 1) % 2 = 1

\* a header first, a separator row right after every row that is not one,
\* and as many such rows as the block had
SeparatorAfterEachRow(rows, outRows) ==
    /\ outRows # <<>> /\ ~is_separator_row(outRows[1])
    /\ \A i \in DOMAIN outRows :
          ~is_separator_row(outRows[i])
              => (i < Len(outRows) /\ is_separator_row(outRows[i + 1]))
    /\ Cardinality({i \in DOMAIN outRows : ~is_separator_row(outRows[i])})
          = Cardinality({k \in DOMAIN rows : ~is_separator_row(rows[k])})

\* C12: a block of header, then separator row / data row in turn, comes out
\* with a separator row right after the header and after every data row.
RepeatedLayoutKept ==
    (fn = "process_table_block" /\ ret # <<>> /\ Alternating(ArgRows))
        => SeparatorAfterEachRow(ArgRows, RetRows)

\* C12 as amended: the same, for a block that is not a valid table or that
\* ends with a separator row; a valid block ending with a data row is kept
\* as it is, without a separator after its last row.
RepeatedLayoutKeptUnlessValid ==
    (/\ fn = "process_table_block" /\ ret # <<>> /\ Alternating(ArgRows)
     /\ \/ ~is_valid_table(merge_continuation_lines(arg))
        \/ is_separator_row(ArgRows[Len(ArgRows)]))
        => SeparatorAfterEachRow(ArgRows, RetRows)

\* C12 witness: a ragged block in repeated layout with two data rows, the
\* last without a separator, has been rebuilt.
RaggedRepeatedRebuilt ==
    /\ fn = "process_table_block" /\ ret # <<>> /\ Alternating(ArgRows)
    /\ ~is_valid_table(merge_continuation_lines(arg))
    /\ Len(ArgRows) = 5
    /\ ret[1] # arg

\* C13: normalize_row returns target_cols cells; on overflow the first
\* target_cols - 1 cells are kept and the last is the space-join of the rest.
OverflowMerge ==
    (fn = "normalize_row" /\ ret # <<>>) =>
        LET row == arg[1]
            t == arg[2]
            out == ret[1]
        IN /\ Len(out) = t
           /\ Len(row) > t =>
                /\ SubSeq(out, 1, t - 1) = SubSeq(row, 1, t - 1)
                /\ out[t] = join(<<" ">>, SubSeq(row, t, Len(row)))
                /\ \A k \in t..Len(row) : Occurs(row[k], out[t])

\* C13 witness: two non-empty overflow cells were merged into the last of
\* two or more columns.
OverflowMerged ==
    /\ fn = "normalize_row" /\ ret # <<>>
    /\ arg[2] >= 2 /\ Len(arg[1]) >= arg[2] + 1
    /\ \A k \in arg[2]..Len(arg[1]) : arg[1][k] # <<>>

\* the lines of the call's argument that hold a pipe and are followed by a
\* continuation line, and the entry of the merged list each one starts
WrappedPipeLines ==
    {i \in DOMAIN arg : HasPipe(arg[i]) /\ i < Len(arg) /\ ~HasPipe(arg[i + 1])}
EntryOf(i) == Cardinality({j \in 1..i : HasPipe(arg[j])})
SameCellsButLast(line, mergedLine) ==
    LET a == parse_row(line)
        b == parse_row(mergedLine)
    IN /\ Len(b) = Len(a)
       /\ SubSeq(b, 1, Len(b) - 1) = SubSeq(a, 1, Len(a) - 1)

\* C20: merging continuation lines into a pipe line leaves its cell count
\* and all its cells but the last as they were, in Claude37_round_5 and in
\* Grok3_round_5.
ContinuationKeepsCellCount ==
    (fn = "merge_continuation_lines" /\ ret # <<>>) =>
        \A i \in WrappedPipeLines :
            /\ SameCellsButLast(arg[i], ret[1][EntryOf(i)])
            /\ SameCellsButLast(arg[i], Grok3_merge_continuation_lines(arg)[EntryOf(i)])

\* C14: the call raises no exception, every step of its loop consumes one
\* of the finitely many lines or returns, and what it returns is a string.
Totality ==
    /\ [](/\ pc # "raised"
          /\ idx <= Len(lines) + 1
          /\ pc = "done" => results # <<>>)
    /\ [][pc = "scan" => (idx' = idx + 1 \/ pc' = "done")]_vars

\* C14 witness: the text of a lone "|" line has been returned.
LonePipeReturned ==
    markdown_text = OnlyPipe /\ pc = "done" /\ results[Len(results)] = OnlyPipe

IsBlank(line) == ~HasPipe(line) /\ strip(line) = <<>>

\* a run of lines that starts at index first of the input: a pipe line first,
\* no blank line inside, no pipe line right before it
BlockRun(ls, first) ==
    /\ ls # <<>>
    /\ first >= 1 /\ first + Len(ls) - 1 <= Len(lines)
    /\ ls = SubSeq(lines, first, first + Len(ls) - 1)
    /\ HasPipe(ls[1])
    /\ \A i \in DOMAIN ls : ~IsBlank(ls[i])
    /\ first > 1 => ~HasPipe(lines[first - 1])

\* C18: every block handed to process_table_block is a run of consecutive
\* input lines that starts with a pipe line, has no blank line and ends at a
\* blank line or at the end of the document; the open block is such a run too.
BlockShape ==
    /\ \A b \in AllBlocks :
          /\ BlockRun(b.orig, b.first)
          /\ LET next == b.first + Len(b.orig)
             IN next > Len(lines) \/ IsBlank(lines[next])
    /\ pc = "scan" =>
          /\ in_table <=> table_block # <<>>
          /\ table_block # <<>> => BlockRun(table_block, idx - Len(table_block))

\* C18 witness: a block that follows a prose line and took in a continuation
\* line has been handed over at the end of the document.
ProseThenWrappedBlock ==
    \E b \in AllBlocks :
        /\ b.first = 2 /\ ~IsBlank(lines[1])
        /\ Len(b.orig) = 2 /\ ~HasPipe(b.orig[2])
        /\ pc = "done"

\* the number of input lines that have been emitted or handed over in a block
Consumed == IF pc = "done" THEN Len(lines) ELSE idx - 1 - Len(table_block)

\* the output the units of lines i..Consumed give, in input order
RECURSIVE UnitsFrom(_)
UnitsFrom(i) ==
    IF i > Consumed THEN <<>>
    ELSE IF \E b \in AllBlocks : b.first = i
    THEN LET b == CHOOSE c \in AllBlocks : c.first = i
         IN b.out \o UnitsFrom(i + Len(b.orig))
    ELSE <<lines[i]>> \o UnitsFrom(i + 1)

\* C19: the blocks are disjoint runs processed once each, in input order,
\* every pipe line is in one of them, and the output is the plain lines and
\* the processed blocks in input order; the returned text is its LF join.
OrderPreservingReassembly ==
    pc # "raised" =>
        /\ \A j, k \in DOMAIN blocks :
              j < k => blocks[j].first + Len(blocks[j].orig) < blocks[k].first
        /\ \A i \in 1..Consumed :
              HasPipe(lines[i]) =>
                  \E b \in AllBlocks : i \in b.first..(b.first + Len(b.orig) - 1)
        /\ \A b \in AllBlocks : b.out = process_table_block(b.orig)
        /\ output = UnitsFrom(1)
        /\ pc = "done" => results[Len(results)] = join(LF, output)

\* C19 witness: a plain line and the rebuilt lines of the block after it have
\* been returned, and so have two blocks with the blank line between them.
BlocksReassembled ==
    /\ pc = "done"
    /\ \/ \E b \in AllBlocks : b.first = 2 /\ b.out # b.orig
       \/ Len(blocks) = 2 /\ IsBlank(lines[2])

\* ------------------------------------------------------------------------
\* Two invocations of fix_invalid_markdown_tables whose steps interleave
\* ------------------------------------------------------------------------
MaxPairLines == 2

PairLines == {Blank, Prose, RowAB, Row123}
PairDocs == UNION {[1..n -> PairLines] : n \in 0..MaxPairLines}

\* the loop of fix_invalid_markdown_tables from line i on, run to its end
RECURSIVE fix_lines(_, _, _, _, _)
fix_lines(ls, i, fixed_lines, block, inside) ==
    IF i > Len(ls)
    THEN IF block # <<>> THEN fixed_lines \o process_table_block(block)
         ELSE fixed_lines
    ELSE IF HasPipe(ls[i])
    THEN fix_lines(ls, i + 1, fixed_lines, Append(block, ls[i]), TRUE)
    ELSE IF inside /\ strip(ls[i]) # <<>>
    THEN fix_lines(ls, i + 1, fixed_lines, Append(block, ls[i]), inside)
    ELSE IF inside
    THEN fix_lines(ls, i + 1,
                   Append(fixed_lines \o process_table_block(block), ls[i]),
                   <<>>, FALSE)
    ELSE fix_lines(ls, i + 1, Append(fixed_lines, ls[i]), block, inside)

\* what one call returns when it runs alone
fix_invalid_markdown_tables(text) ==
    join(LF, fix_lines(splitlines(text), 1, <<>>, <<>>, FALSE))

\* the first invocation is in the middle of a block
MainMidBlock == pc = "scan" /\ in_table

InitPair ==
    /\ \E doc \in PairDocs : markdown_text = join(LF, doc)
    /\ lines = splitlines(markdown_text)
    /\ idx = 1
    /\ output = <<>>
    /\ table_block = <<>>
    /\ in_table = FALSE
    /\ pc = "scan"
    /\ blocks = <<>>
    /\ results = <<>>
    /\ NoCall /\ NoTour
    /\ \E doc \in PairDocs : other = [pc |-> "call", markdown_text |-> join(LF, doc)]

\* the second call entered with the block and the flag the first call holds
OtherStart_kept_block ==
    /\ other.pc = "call"
    /\ other' = [pc |-> "scan", markdown_text |-> other.markdown_text,
                 lines |-> splitlines(other.markdown_text), idx |-> 1,
                 output |-> <<>>, table_block |-> table_block,
                 in_table |-> in_table, overlap |-> MainMidBlock]
    /\ UNCHANGED <<markdown_text, lines, idx, output, table_block, in_table, pc, blocks, results, fn, arg, ret, tour>>

\* the second call is entered: its own lines, fixed_lines, table_block, in_table
OtherStart ==
    /\ other.pc = "call"
    /\ other' = [pc |-> "scan", markdown_text |-> other.markdown_text,
                 lines |-> splitlines(other.markdown_text), idx |-> 1,
                 output |-> <<>>, table_block |-> <<>>, in_table |-> FALSE,
                 overlap |-> MainMidBlock]
    /\ UNCHANGED <<markdown_text, lines, idx, output, table_block, in_table, pc, blocks, results, fn, arg, ret, tour>>

OtherAt == other.pc = "scan" /\ other.idx <= Len(other.lines)
OtherLine == other.lines[other.idx]

\* if '|' in line, in the second call
OtherPipeLine ==
    /\ OtherAt /\ HasPipe(OtherLine)
    /\ other' = [other EXCEPT !.table_block = Append(@, OtherLine),
                              !.in_table = TRUE, !.idx = @ + 1,
                              !.overlap = @ \/ MainMidBlock]
    /\ UNCHANGED <<markdown_text, lines, idx, output, table_block, in_table, pc, blocks, results, fn, arg, ret, tour>>

\* elif in_table and line.strip(), in the second call
OtherContinuationLine ==
    /\ OtherAt /\ ~HasPipe(OtherLine)
    /\ other.in_table /\ strip(OtherLine) # <<>>
    /\ other' = [other EXCEPT !.table_block = Append(@, OtherLine),
                              !.idx = @ + 1,
                              !.overlap = @ \/ MainMidBlock]
    /\ UNCHANGED <<markdown_text, lines, idx, output, table_block, in_table, pc, blocks, results, fn, arg, ret, tour>>

\* else, in the second call
OtherPlainLine ==
    /\ OtherAt /\ ~HasPipe(OtherLine)
    /\ ~(other.in_table /\ strip(OtherLine) # <<>>)
    /\ other' =
          IF other.in_table /\ process_table_block_raises(other.table_block)
          THEN [other EXCEPT !.pc = "raised"]
          ELSE IF other.in_table
          THEN [other EXCEPT
                   !.output = Append(@ \o process_table_block(other.table_block),
                                     OtherLine),
                   !.table_block = <<>>, !.in_table = FALSE, !.idx = @ + 1,
                   !.overlap = @ \/ MainMidBlock]
          ELSE [other EXCEPT !.output = Append(@, OtherLine), !.idx = @ + 1,
                             !.overlap = @ \/ MainMidBlock]
    /\ UNCHANGED <<markdown_text, lines, idx, output, table_block, in_table, pc, blocks, results, fn, arg, ret, tour>>

\* after the loop, in the second call
OtherEndOfDocument ==
    /\ other.pc = "scan" /\ other.idx > Len(other.lines)
    /\ other' =
          IF other.table_block # <<>> /\ process_table_block_raises(other.table_block)
          THEN [other EXCEPT !.pc = "raised"]
          ELSE LET final == IF other.table_block # <<>>
                            THEN other.output \o process_table_block(other.table_block)
                            ELSE other.output
               IN [pc |-> "done", markdown_text |-> other.markdown_text,
                   result |-> join(LF, final), overlap |-> other.overlap]
    /\ UNCHANGED <<markdown_text, lines, idx, output, table_block, in_table, pc, blocks, results, fn, arg, ret, tour>>

NextPair ==
    \/ PipeLine \/ ContinuationLine \/ PlainLine \/ EndOfDocument
    \/ OtherStart \/ OtherPipeLine \/ OtherContinuationLine \/ OtherPlainLine
    \/ OtherEndOfDocument

SpecPair == InitPair /\ [][NextPair]_vars

\* C15: whatever the interleaving of the two invocations, each returns the
\* text the call returns for its own input when it runs alone.
Statelessness ==
    /\ pc # "raised" /\ other.pc # "raised"
    /\ pc = "done" => results[1] = fix_invalid_markdown_tables(markdown_text)
    /\ other.pc = "done" =>
          other.result = fix_invalid_markdown_tables(other.markdown_text)

\* C15 witness: both invocations have returned, on different inputs, the
\* second having run while the first was in the middle of a block, and both
\* rebuilt a table.
InterleavedBothReturned ==
    /\ pc = "done" /\ other.pc = "done"
    /\ other.overlap
    /\ markdown_text # other.markdown_text
    /\ results[1] # markdown_text /\ other.result # other.markdown_text

\* ------------------------------------------------------------------------
\* LLMTournament: run_tournament, run_round and query_model
\* ------------------------------------------------------------------------
MAX_RETRIES == 3

MaxRounds == 1
MaxWorkers == 2

Models == {"claude37", "o1_pro"}

\* a query_model call: queued in the pool, in the try block, in the backoff
\* sleep, returned, or collected by run_round; log lists its API calls
\* ("ok", "fail") and sleeps ("sleep") in order
Submitted ==
    [st |-> "queued", attempt |-> 0, error |-> FALSE, failed |-> FALSE,
     log |-> <<>>]

\* response_obj as query_model returns it
ResponseOf(m) ==
    [model_name |-> m, round_num |-> tour.round_num,
     error |-> tour.q[m].error, failed |-> tour.q[m].failed]

Running == {m \in Models : tour.q[m].st \in {"try", "sleep"}}

InitTour ==
    /\ Idle /\ NoCall /\ NoOther
    /\ \E rounds \in 0..MaxRounds, concurrent_requests \in 1..MaxWorkers :
          tour = [phase |-> "new", rounds |-> rounds,
                  concurrent_requests |-> concurrent_requests,
                  round_num |-> 0, prompt_from |-> {},
                  q |-> [m \in Models |-> Submitted],
                  responses |-> {}, round_responses |-> {},
                  recorded |-> {}, report |-> <<>>, results |-> <<>>]

tourframe == <<markdown_text, lines, idx, output, table_block, in_table, pc,
               blocks, results, fn, arg, ret, other>>

\* run_round(round_num): the prompt is built from the stored responses of
\* the previous round and every model's query is submitted to the pool
RunRound ==
    /\ \/ tour.phase = "new"
       \/ tour.phase = "between" /\ tour.round_num < tour.rounds
    /\ LET round_num == IF tour.phase = "new" THEN 0 ELSE tour.round_num + 1
       IN tour' = [tour EXCEPT
              !.phase = "round",
              !.round_num = round_num,
              !.prompt_from =
                  {r.model_name : r \in {x \in tour.responses :
                                            x.round_num = round_num - 1}},
              !.q = [m \in Models |-> Submitted],
              !.round_responses = {}]
    /\ UNCHANGED tourframe

\* a pool worker takes the query: at most concurrent_requests run at a time
StartQuery(m) ==
    /\ tour.phase = "round" /\ tour.q[m].st = "queued"
    /\ Cardinality(Running) < tour.concurrent_requests
    /\ tour' = [tour EXCEPT !.q[m].st = "try"]
    /\ UNCHANGED tourframe

\* the try block runs to its end: the response is stored and returned
ApiSucceeds(m) ==
    /\ tour.phase = "round" /\ tour.q[m].st = "try"
    /\ tour' = [tour EXCEPT
           !.q[m].st = "returned",
           !.q[m].log = Append(@, "ok"),
           !.responses = @ \cup {ResponseOf(m)}]
    /\ UNCHANGED tourframe

\* a backoff sleep follows the failed attempt
sleep_every_time(attempt) ==
    TRUE

\* if attempt < MAX_RETRIES - 1
retry_with_backoff(attempt) ==
    attempt < MAX_RETRIES - 1

\* the try block raises: the error is kept, then backoff or the error response
ApiFails(m) ==
    /\ tour.phase = "round" /\ tour.q[m].st = "try"
    /\ tour' = [tour EXCEPT
           !.q[m].error = TRUE,
           !.q[m].log = Append(@, "fail"),
           !.q[m].st = IF retry_with_backoff(tour.q[m].attempt)
                       THEN "sleep" ELSE "returned",
           !.q[m].failed = ~retry_with_backoff(tour.q[m].attempt)]
    /\ UNCHANGED tourframe

\* time.sleep(backoff_time) is over: the next turn of the for loop, or the
\* return after the loop when range(MAX_RETRIES) is used up
BackoffOver(m) ==
    /\ tour.phase = "round" /\ tour.q[m].st = "sleep"
    /\ tour' = [tour EXCEPT
           !.q[m].attempt = @ + 1,
           !.q[m].log = Append(@, "sleep"),
           !.q[m].st = IF tour.q[m].attempt + 1 < MAX_RETRIES
                       THEN "try" ELSE "returned"]
    /\ UNCHANGED tourframe

\* as_completed: round_responses[model_name] = future.result()
Collect(m) ==
    /\ tour.phase = "round" /\ tour.q[m].st = "returned"
    /\ tour' = [tour EXCEPT
           !.q[m].st = "collected",
           !.round_responses = @ \cup {ResponseOf(m)}]
    /\ UNCHANGED tourframe

\* a key of the dictionary metrics["rounds"]: the integer round_num, or
\* the string str(round_num); n is the number either one denotes
IntKey(round_num) == [type |-> "int", n |-> round_num]
StrKey(round_num) == [type |-> "str", n |-> round_num]

\* round_metrics = self.metrics.get("rounds", {}).get(str(round_num), {})
ReportKey(round_num) == StrKey(round_num)

\* run_round going on to update_metrics with queries still running
FinishRound_early ==
    /\ tour.phase = "round"
    /\ \E m \in Models : tour.q[m].st = "collected"
    /\ tour' = [tour EXCEPT !.phase = "between",
                            !.recorded = @ \cup {IntKey(tour.round_num)}]
    /\ UNCHANGED tourframe

\* the pool is left when every future completed; update_metrics records the
\* round: self.metrics["rounds"][round_num] = round_metrics
FinishRound ==
    /\ tour.phase = "round"
    /\ \A m \in Models : tour.q[m].st = "collected"
    /\ tour' = [tour EXCEPT !.phase = "between",
                            !.recorded = @ \cup {IntKey(tour.round_num)}]
    /\ UNCHANGED tourframe

\* the stored response of model m for round round_num, if any, as a list
StoredFor(m, round_num) ==
    LET found == {r \in tour.responses :
                     r.model_name = m /\ r.round_num = round_num}
    IN IF found = {} THEN <<>> ELSE <<CHOOSE r \in found : TRUE>>

\* for round_num in range(self.rounds + 1): results[model_name].append(response)
RECURSIVE ResultsOf(_, _)
ResultsOf(m, round_num) ==
    IF round_num > tour.rounds THEN <<>>
    ELSE StoredFor(m, round_num) \o ResultsOf(m, round_num + 1)

\* generate_metrics_report: the rounds that get a "### Round k" section and
\* a row in the code size table, those whose round_metrics is found
ReportedRounds ==
    {k \in 0..tour.rounds : ReportKey(k) \in tour.recorded}

\* after the last round run_tournament writes the report and organises
\* self.responses by model
FinishTournament ==
    /\ tour.phase = "between" /\ tour.round_num = tour.rounds
    /\ tour' = [tour EXCEPT !.phase = "done",
                            !.report = [sections |-> ReportedRounds,
                                        rows |-> ReportedRounds],
                            !.results = [m \in Models |-> ResultsOf(m, 0)]]
    /\ UNCHANGED tourframe

NextTour ==
    \/ RunRound
    \/ \E m \in Models : StartQuery(m)
    \/ \E m \in Models : ApiSucceeds(m)
    \/ \E m \in Models : ApiFails(m)
    \/ \E m \in Models : BackoffOver(m)
    \/ \E m \in Models : Collect(m)
    \/ FinishRound
    \/ FinishTournament

SpecTour == InitTour /\ [][NextTour]_vars

\* C16: run_tournament returns for every model rounds + 1 responses, the one
\* at position i being the model's response for round i.
ResultsPerRound ==
    tour.phase = "done" =>
        \A m \in Models :
            /\ Len(tour.results[m]) = tour.rounds + 1
            /\ \A i \in 1..Len(tour.results[m]) :
                  tour.results[m][i].round_num = i - 1

IsCall(e) == e \in {"ok", "fail"}
Calls(log) == Len(SelectSeq(log, IsCall))

\* C17: a query makes at most MAX_RETRIES API calls, none after a successful
\* one, every backoff sleep is followed by another call, and the query
\* returns a response after a success or after MAX_RETRIES failed calls.
BoundedRetry ==
    tour.phase = "round" =>
        \A m \in Models :
            LET query == tour.q[m]
                log == query.log
            IN /\ Calls(log) <= MAX_RETRIES
               /\ \A i \in DOMAIN log : log[i] = "ok" => i = Len(log)
               /\ \A i \in DOMAIN log :
                     log[i] = "sleep" =>
                         IF i < Len(log) THEN IsCall(log[i + 1])
                         ELSE query.st = "try"
               /\ query.st \in {"try", "sleep"} => Calls(log) < MAX_RETRIES
               /\ query.st \in {"returned", "collected"} =>
                     \/ log[Len(log)] = "ok" /\ ~query.failed
                     \/ /\ log = <<"fail", "sleep", "fail", "sleep", "fail">>
                        /\ query.failed /\ query.error

\* C17 witness: one query returned after three failed calls and two sleeps,
\* another returned on its second call.
RetriedQueriesReturned ==
    /\ tour.phase = "round"
    /\ \E m \in Models :
          /\ tour.q[m].st = "returned"
          /\ tour.q[m].log = <<"fail", "sleep", "fail", "sleep", "fail">>
    /\ \E m \in Models :
          /\ tour.q[m].st = "returned"
          /\ tour.q[m].log = <<"fail", "sleep", "ok">>

PipeIndices == {i \in DOMAIN arg : HasPipe(arg[i])}
NextPipe(i) ==
    LET later == {j \in PipeIndices : j > i}
    IN IF later = {} THEN Len(arg) + 1
       ELSE CHOOSE j \in later : \A k \in later : j <= k

\* one space and the trimmed text of each of the lines i..j-1 of the argument
RECURSIVE Continuations(_, _)
Continuations(i, j) ==
    IF i >= j THEN <<>>
    ELSE <<" ">> \o strip(arg[i]) \o Continuations(i + 1, j)

\* C21: merge_continuation_lines returns one entry per pipe line, in order:
\* the line without its trailing whitespace, then one space and the trimmed
\* text of every non-pipe line up to the next pipe line.
MergerResult ==
    (fn = "merge_continuation_lines" /\ ret # <<>>) =>
        /\ Len(ret[1]) = Cardinality(PipeIndices)
        /\ \A i \in PipeIndices :
              ret[1][EntryOf(i)] =
                  rstrip(arg[i]) \o Continuations(i + 1, NextPipe(i))

\* C21 witness: a pipe line with trailing whitespace, two continuation lines,
\* one of them indented, and a second pipe line have been merged.
TwoContinuationsMerged ==
    /\ fn = "merge_continuation_lines" /\ ret # <<>>
    /\ arg = <<RowAB, ProsePadded, Prose, RowPiped>>

\* the call rebuilt its block with fix_table_block
CallRebuilt ==
    /\ fn = "process_table_block" /\ ret # <<>>
    /\ Len(merge_continuation_lines(arg)) >= 2
    /\ ~is_valid_table(merge_continuation_lines(arg))
ArgStyle == detect_table_style(merge_continuation_lines(arg)[1])
ArgWidth ==
    CHOOSE m \in {Len(ArgRows[k]) : k \in DOMAIN ArgRows} :
        \A k \in DOMAIN ArgRows : Len(ArgRows[k]) <= m
Padded(row) == row \o [i \in 1..(ArgWidth - Len(row)) |-> <<>>]
DashRow == [i \in 1..ArgWidth |-> Dashes]
IsDataRow(row) == ~is_separator_row(row)
\* the rows after the header that are not separator rows, in order
DataRows == SelectSeq(Tail(ArgRows), IsDataRow)
Serialised(rows) == [k \in DOMAIN rows |-> rebuild_row(rows[k], ArgStyle)]

\* C22: in the standard layout the rebuilt block is the padded header, one
\* row of "---" cells, then every later row that is not a separator row,
\* padded, in order.
StandardLayoutOutput ==
    (CallRebuilt /\ ~detect_separator_pattern(ArgRows)) =>
        ret[1] = Serialised(<<Padded(ArgRows[1]), DashRow>>
                            \o [k \in DOMAIN DataRows |-> Padded(DataRows[k])])

\* C22 witness: a block without a separator row whose second row is wider
\* than its header has been rebuilt with a separator row inserted.
SeparatorInserted ==
    /\ CallRebuilt /\ ~detect_separator_pattern(ArgRows)
    /\ \A k \in DOMAIN ArgRows : IsDataRow(ArgRows[k])
    /\ Len(ArgRows) = 3
    /\ Len(ArgRows[2]) > Len(ArgRows[1])
    /\ Len(ret[1]) = 4

\* data row k, then a row of "---" cells, for every data row
RECURSIVE RowThenDashes(_)
RowThenDashes(k) ==
    IF k > Len(DataRows) THEN <<>>
    ELSE <<Padded(DataRows[k]), DashRow>> \o RowThenDashes(k + 1)

\* C23: in the repeated layout the rebuilt block is the header, a row of
\* "---" cells, then every later row that is not a separator row followed
\* by a row of "---" cells: 2 + 2k lines, a "---" row at every odd position.
RepeatedLayoutOutput ==
    (CallRebuilt /\ detect_separator_pattern(ArgRows)) =>
        /\ ret[1] = Serialised(<<Padded(ArgRows[1]), DashRow>> \o RowThenDashes(1))
        /\ Len(ret[1]) = 2 + 2 * Len(DataRows)
        /\ \A i \in DOMAIN ret[1] :
              (i - 1) % 2 = 1 => ret[1][i] = rebuild_row(DashRow, ArgStyle)

\* C23 witness: a ragged block with a separator row after each of its two
\* data rows has been rebuilt into six lines.
RepeatedBlockRebuilt ==
    /\ CallRebuilt /\ detect_separator_pattern(ArgRows)
    /\ Len(DataRows) = 2 /\ Len(ArgRows) = 5
    /\ \E k \in DOMAIN ArgRows : Len(ArgRows[k]) < ArgWidth
    /\ Len(ret[1]) = 6

\* C25: in fix_table_block no row is wider than max_cols, so normalize_row
\* only pads: the header line and every data row's line are the parsed cells
\* followed by empty cells.
PaddingOnly ==
    CallRebuilt =>
        /\ \A k \in DOMAIN ArgRows :
              /\ Len(ArgRows[k]) <= max_cols_of(ArgRows)
              /\ normalize_row(ArgRows[k], max_cols_of(ArgRows)) = Padded(ArgRows[k])
        /\ ret[1][1] = rebuild_row(Padded(ArgRows[1]), ArgStyle)
        /\ \A k \in DOMAIN DataRows :
              \E i \in DOMAIN ret[1] :
                  ret[1][i] = rebuild_row(Padded(DataRows[k]), ArgStyle)

\* C25 witness: a block whose header is narrower than a later row has been
\* rebuilt.
NarrowHeaderRebuilt ==
    /\ CallRebuilt
    /\ Len(ArgRows[1]) < ArgWidth
    /\ Len(ArgRows[1]) = 1

\* the call of O1_pro_round_4 or O3_mini_high_round_4 rebuilt its block in
\* the standard layout
OStandardRebuilt ==
    /\ ret # <<>>
    /\ Len(arg) >= 2
    /\ \/ /\ fn = "O1_pro_round_4.fix_table_block"
          /\ ~O1_is_valid_table(arg)
          /\ ~O1_detect_repeated_separators(ArgRows)
       \/ /\ fn = "O3_mini_high_round_4.process_table_block"
          /\ ~O3_is_valid_table(arg)
          /\ ~O3_detect_separator_pattern(ArgRows)

\* C24: in the standard layout both classes emit, after the header and the
\* "---" row, every row of the block that is not a separator row, in order,
\* the row at index 1 included.
StandardKeepsDataRows ==
    OStandardRebuilt =>
        ret[1] = Serialised(<<Padded(ArgRows[1]), DashRow>>
                            \o [k \in DOMAIN DataRows |-> Padded(DataRows[k])])

\* C26: parsing the line rebuild_row made of a non-empty list of cells, in
\* any pipe style, gives the cells back.
RoundTrip ==
    (fn = "rebuild_row" /\ ret # <<>>) => parse_row(ret[1]) = arg[1]

\* ------------------------------------------------------------------------
\* fix_invalid_markdown_tables applied again and again to its own result
\* ------------------------------------------------------------------------
MaxIterLines == 2
MaxIter == 4

IterDocs == UNION {[1..n -> InputLines] : n \in 0..MaxIterLines}

\* results[n] is the text after n applications to markdown_text
InitIter ==
    /\ \E doc \in IterDocs, term \in Terminators, trailing \in BOOLEAN :
          markdown_text = join(term, doc) \o (IF trailing THEN term ELSE <<>>)
    /\ lines = <<>> /\ idx = 1 /\ output = <<>>
    /\ table_block = <<>> /\ in_table = FALSE /\ pc = "iterate"
    /\ blocks = <<>> /\ results = <<>>
    /\ NoCall /\ NoOther /\ NoTour

\* text = Claude37_round_5.fix_invalid_markdown_tables(text)
Iterate ==
    /\ pc = "iterate" /\ Len(results) < MaxIter
    /\ results' = Append(results,
                         fix_invalid_markdown_tables(
                             IF results = <<>> THEN markdown_text
                             ELSE results[Len(results)]))
    /\ UNCHANGED <<markdown_text, lines, idx, output, table_block, in_table, pc,
                   blocks, fn, arg, ret, other, tour>>

NextIter == Iterate

SpecIter == InitIter /\ [][NextIter]_vars

\* C27: among the first MaxIter applications there is one that returns the
\* text it was given, and every application after it returns that text too.
Convergence ==
    Len(results) = MaxIter =>
        \E n \in 1..(MaxIter - 1) :
            \A k \in n..(MaxIter - 1) : results[k + 1] = results[n]

\* C27 witness: a ragged table was changed by the first and by the second
\* application and left alone by the third.
ConvergedAfterTwo ==
    /\ Len(results) = MaxIter
    /\ HasPipe(markdown_text)
    /\ results[1] # markdown_text
    /\ results[2] # results[1]
    /\ results[3] = results[2]

Finished(query) == query.st \in {"returned", "collected"}

\* C28: a round starts only as round 0 of a new tournament or as the round
\* after the current one, when every query of the current round has
\* finished; its prompt is built from the responses stored for the round
\* before it, and only then are its queries submitted.
RoundOrdering ==
    [][(tour.phase # "off" /\ tour'.phase = "round" /\ tour.phase # "round") =>
          /\ tour'.round_num = IF tour.phase = "new" THEN 0 ELSE tour.round_num + 1
          /\ tour'.round_num <= tour.rounds
          /\ tour.phase # "new" => \A m \in Models : Finished(tour.q[m])
          /\ tour'.prompt_from =
                {m \in Models :
                    \E r \in tour.responses :
                        r.model_name = m /\ r.round_num = tour'.round_num - 1}
          /\ \A m \in Models : tour'.q[m].st = "queued"]_vars

\* C28 witness: a query of round 1 is running, the prompt of the round built
\* from the one response stored for round 0.
SecondRoundRunning ==
    /\ tour.phase = "round" /\ tour.round_num = 1
    /\ Cardinality(tour.prompt_from) = 1
    /\ \E m \in Models : tour.q[m].st = "try"

\* C29: a returned response has its error set exactly when every attempt
\* failed, and no response stored in self.responses has it set.
ErrorFlag ==
    tour.phase = "round" =>
        /\ \A m \in Models :
              Finished(tour.q[m]) => (tour.q[m].error <=> tour.q[m].failed)
        /\ \A r \in tour.responses : ~r.error

\* C30: every round recorded by update_metrics has its section and its row
\* in the report.
ReportCoversRounds ==
    tour.phase = "done" =>
        \A k \in 0..tour.rounds :
            (\E key \in tour.recorded : key.n = k) =>
                k \in tour.report.sections /\ k \in tour.report.rows

====
